---- MODULE Spec2Model ----
(***************************************************************************)
(* State-machine model of the Inventory singleton                          *)
(* (src/src/module/Prototypes/bundle.old.ts, class Inventory, l. 98-145).  *)
(*                                                                         *)
(* A JavaScript Map is modelled as the sequence of its <<key, value>>      *)
(* entries in insertion order.  Objects live in `heap`; `instance` is the  *)
(* static field Inventory.instance; `handles` are the local variables of   *)
(* the callers that hold what getInstance() returned to them.              *)
(***************************************************************************)
EXTENDS Integers, Sequences, FiniteSets, TLC

\* ------------------------------------------------------------------ bounds
MaxObjects == 2
MaxQty == 1
MaxStock == 2

\* the two callers of the usage example (bundle.old.ts l. 154 and l. 158)
Handles == {"registerSystem", "stockSystem"}
\* item names are case-sensitive strings
Names == {"Apple", "apple"}
Quantities == (0 - MaxQty)..MaxQty
\* prices in cents: 0, and the 1.50 of the usage example (bundle.old.ts l. 155)
PriceValues == {0, 150}

\* null (Inventory.instance before the first getInstance, a handle not yet set)
Null == 0

VARIABLES
    heap,       \* sequence of Inventory objects, heap[i] = [items, prices]
    instance,   \* Inventory.instance: Null or an index of heap
    handles,    \* handles[h]: Null or the index returned to caller h
    last,       \* the last call: operation, name, quantity, return value
    ref,        \* reference stock/price mapping: every call applied to it
    lastPrice,  \* lastPrice[n]: <<>> or <<p>>, p the price of the last add of n
    ledger,     \* ledger[n]: quantities added of n minus quantities sold of n
    snap,       \* a caller that keeps the array getAllItems() returned to it
    bld,        \* a ProducePackageBuilder and the outcome of the last call on it
    proto,      \* the ProduceBundle objects, their items and their arrays
    fac,        \* the products made by the fruit factories
    ord,        \* two builders given the same calls in different orders
    pk,         \* a builder, the packages it built and the arrays they hold
    ui,         \* the Singleton demo: its fields, its log and its Inventory
    pd          \* the Prototype demo: its collection of bundles

inventoryVars == <<heap, instance, handles, last, ref, lastPrice, ledger>>
vars == <<heap, instance, handles, last, ref, lastPrice, ledger, snap, bld, proto,
          fac, ord, pk, ui, pd>>

\* ------------------------------------------------------- Map<string, number>
\* new Map()
NewMap == <<>>

\* Map.prototype.has
MapHas(m, k) == \E i \in 1..Len(m) : m[i][1] = k

\* Map.prototype.get: <<>> is undefined, <<v>> the value stored
MapGet(m, k) ==
    IF MapHas(m, k)
    THEN <<m[CHOOSE i \in 1..Len(m) : m[i][1] = k][2]>>
    ELSE <<>>

\* Map.prototype.set: an existing key keeps its position, a new key is appended
MapSetMovesToEnd(m, k, v) ==
    Append(SelectSeq(m, LAMBDA e : e[1] # k), <<k, v>>)

MapSet(m, k, v) ==
    IF MapHas(m, k)
    THEN [i \in 1..Len(m) |-> IF m[i][1] = k THEN <<k, v>> ELSE m[i]]
    ELSE Append(m, <<k, v>>)

\* `x || 0` on the result of Map.get: undefined and 0 are falsy
OrZero(r) == IF r = <<>> THEN 0 ELSE IF r[1] = 0 THEN 0 ELSE r[1]

\* Array.from(map.entries())
MapEntries(m) == m

\* ---------------------------------------------------------------- Inventory
\* private constructor()
NewInventory == [items |-> NewMap, prices |-> NewMap]

\* getInstance(): [heap, instance, ret] after the call
GetInstanceFresh(hp, inst) ==
    [heap |-> Append(hp, NewInventory), instance |-> Len(hp) + 1, ret |-> Len(hp) + 1]

GetInstanceResets(hp, inst) ==
    IF inst = Null
    THEN [heap |-> Append(hp, NewInventory), instance |-> Len(hp) + 1, ret |-> Len(hp) + 1]
    ELSE [heap |-> [hp EXCEPT ![inst] = NewInventory], instance |-> inst, ret |-> inst]

getInstance(hp, inst) ==
    IF inst = Null
    THEN [heap |-> Append(hp, NewInventory), instance |-> Len(hp) + 1, ret |-> Len(hp) + 1]
    ELSE [heap |-> hp, instance |-> inst, ret |-> inst]

\* getStockCount(name)
getStockCount(inv, name) == OrZero(MapGet(inv.items, name))

\* getPrice(name)
getPrice(inv, name) == OrZero(MapGet(inv.prices, name))

\* getStockCount, getPrice and getAllItems are one return statement each and
\* assign nothing: the object after such a call, made for name
AfterQueryCreatesEntry(inv, name) ==
    [inv EXCEPT !.items = MapSet(inv.items, name, OrZero(MapGet(inv.items, name)))]

AfterQuery(inv, name) == inv

\* getAllItems()
GetAllItemsOfPrices(inv) == MapEntries(inv.prices)

getAllItems(inv) == MapEntries(inv.items)

\* addItem(name, quantity, price): the object after the call
AddItemOverwrite(inv, name, quantity, price) ==
    [items |-> MapSet(inv.items, name, quantity),
     prices |-> MapSet(inv.prices, name, price)]

AddItemFirstPrice(inv, name, quantity, price) ==
    [items |-> MapSet(inv.items, name, OrZero(MapGet(inv.items, name)) + quantity),
     prices |-> IF MapHas(inv.prices, name) THEN inv.prices
                ELSE MapSet(inv.prices, name, price)]

AddItemReprices(inv, name, quantity, price) ==
    [items |-> MapSet(inv.items, name, OrZero(MapGet(inv.items, name)) + quantity),
     prices |-> MapSet([i \in 1..Len(inv.prices) |-> <<inv.prices[i][1], price>>],
                       name, price)]

addItem(inv, name, quantity, price) ==
    [items |-> MapSet(inv.items, name, OrZero(MapGet(inv.items, name)) + quantity),
     prices |-> MapSet(inv.prices, name, price)]

\* sellItem(name, quantity): [inv, ret, err], the object after the call, the
\* result, and whether the call threw instead of returning
SellItemThrows(inv, name, quantity) ==
    LET currentQuantity == OrZero(MapGet(inv.items, name)) IN
    IF currentQuantity < quantity
    THEN [inv |-> inv, ret |-> FALSE, err |-> TRUE]
    ELSE [inv |-> [inv EXCEPT !.items = MapSet(inv.items, name, currentQuantity - quantity)],
          ret |-> TRUE, err |-> FALSE]

SellItemStrict(inv, name, quantity) ==
    LET currentQuantity == OrZero(MapGet(inv.items, name)) IN
    IF currentQuantity <= quantity
    THEN [inv |-> inv, ret |-> FALSE, err |-> FALSE]
    ELSE [inv |-> [inv EXCEPT !.items = MapSet(inv.items, name, currentQuantity - quantity)],
          ret |-> TRUE, err |-> FALSE]

SellItemClearsOnFailure(inv, name, quantity) ==
    LET currentQuantity == OrZero(MapGet(inv.items, name)) IN
    IF currentQuantity < quantity
    THEN [inv |-> [inv EXCEPT !.items = MapSet(inv.items, name, 0)], ret |-> FALSE,
          err |-> FALSE]
    ELSE [inv |-> [inv EXCEPT !.items = MapSet(inv.items, name, currentQuantity - quantity)],
          ret |-> TRUE, err |-> FALSE]

SellItemNoDecrement(inv, name, quantity) ==
    LET currentQuantity == OrZero(MapGet(inv.items, name)) IN
    IF currentQuantity < quantity
    THEN [inv |-> inv, ret |-> FALSE, err |-> FALSE]
    ELSE [inv |-> [inv EXCEPT !.items = MapSet(inv.items, name, currentQuantity)],
          ret |-> TRUE, err |-> FALSE]

SellItemDropsPrice(inv, name, quantity) ==
    LET currentQuantity == OrZero(MapGet(inv.items, name)) IN
    IF currentQuantity < quantity
    THEN [inv |-> inv, ret |-> FALSE, err |-> FALSE]
    ELSE [inv |-> [items |-> MapSet(inv.items, name, currentQuantity - quantity),
                   prices |-> SelectSeq(inv.prices, LAMBDA e : e[1] # name)],
          ret |-> TRUE, err |-> FALSE]

SellItemSellsOne(inv, name, quantity) ==
    LET currentQuantity == OrZero(MapGet(inv.items, name)) IN
    IF currentQuantity < quantity
    THEN [inv |-> inv, ret |-> FALSE, err |-> FALSE]
    ELSE [inv |-> [inv EXCEPT !.items = MapSet(inv.items, name, currentQuantity - 1)],
          ret |-> TRUE, err |-> FALSE]

sellItem(inv, name, quantity) ==
    LET currentQuantity == OrZero(MapGet(inv.items, name)) IN
    IF currentQuantity < quantity
    THEN [inv |-> inv, ret |-> FALSE, err |-> FALSE]
    ELSE [inv |-> [inv EXCEPT !.items = MapSet(inv.items, name, currentQuantity - quantity)],
          ret |-> TRUE, err |-> FALSE]

\* ------------------------------------------------------------- observation
NoName == ""
\* a return value: void, a boolean, a number, an object or an array of entries
RetVoid == [kind |-> "void", b |-> FALSE, n |-> 0, es |-> <<>>]
RetBool(b) == [kind |-> "boolean", b |-> b, n |-> 0, es |-> <<>>]
RetNum(n) == [kind |-> "number", b |-> FALSE, n |-> n, es |-> <<>>]
RetObj(i) == [kind |-> "object", b |-> FALSE, n |-> i, es |-> <<>>]
RetEntries(es) == [kind |-> "entries", b |-> FALSE, n |-> 0, es |-> es]

NoCall == [op |-> "none", name |-> NoName, q |-> 0, fresh |-> FALSE,
           ret |-> RetVoid, refRet |-> RetVoid, threw |-> FALSE]

\* fresh: the call found no entry for the name, in items or in prices
Call(op, name, q, fresh, ret, refRet) ==
    [op |-> op, name |-> name, q |-> q, fresh |-> fresh, ret |-> ret, refRet |-> refRet,
     threw |-> FALSE]

\* a call that threw: nothing is returned
Thrown(op, name, q) ==
    [op |-> op, name |-> name, q |-> q, fresh |-> FALSE, ret |-> RetVoid,
     refRet |-> RetVoid, threw |-> TRUE]

\* the model's bound on the stock values explored
InRange(inv) ==
    \A i \in 1..Len(inv.items) :
        inv.items[i][2] >= 0 - MaxStock /\ inv.items[i][2] <= MaxStock

\* ------------------------------------------- the array getAllItems returns
\* Array.from(iterable) builds a new array, and entries() a new [key, value]
\* pair per entry: what getAllItems returns shares no storage with the Map
ReturnsBackingStore == TRUE

ArrayFromShares == FALSE

\* a caller before its first getAllItems():
\*   inv     the Inventory object
\*   has     the caller holds an array that getAllItems returned
\*   held    that array as it is now
\*   orig    that array as it was returned
\*   expect  that array as the caller itself left it
\*   dirty   addItem or sellItem was called since the array was returned
SnapIdle ==
    [inv |-> NewInventory, has |-> FALSE, held |-> <<>>, orig |-> <<>>,
     expect |-> <<>>, dirty |-> FALSE, op |-> "none"]

\* the held array after a call left the Inventory object as inv
HeldAfter(inv) == IF snap.has /\ ArrayFromShares THEN getAllItems(inv) ELSE snap.held

\* the Inventory object after the caller left its array as arr
InvAfter(arr) == IF ArrayFromShares THEN [snap.inv EXCEPT !.items = arr] ELSE snap.inv

\* ------------------------------------------------- ProducePackageBuilder
\* strings are sequences of characters; the white space String.prototype.trim
\* removes, as far as the inputs below use it
WhiteSpace == {" ", "\t", "\n"}

RECURSIVE trimStart(_)
trimStart(s) ==
    IF Len(s) > 0 /\ Head(s) \in WhiteSpace THEN trimStart(Tail(s)) ELSE s

RECURSIVE trimEnd(_)
trimEnd(s) ==
    IF Len(s) > 0 /\ s[Len(s)] \in WhiteSpace
    THEN trimEnd(SubSeq(s, 1, Len(s) - 1))
    ELSE s

\* String.prototype.trim
trim(s) == trimEnd(trimStart(s))

\* new Date(), as a number of days
Now == 2

\* no exception
NoError == ""

\* deliveryDate: Date | null = null
NoDate == <<>>

\* new ProducePackageBuilder(name): the fields with their default values
ProducePackageBuilder(name) ==
    [name |-> name, fruits |-> <<>>, vegetables |-> <<>>, price |-> 0,
     isGift |-> FALSE, hasDiscount |-> FALSE, discountPercent |-> 0,
     recyclablePackaging |-> TRUE, customMessage |-> <<>>,
     deliveryDate |-> NoDate]

\* a fluent method returning this, the builder left as b
ReturnsThis(b) == [b |-> b, err |-> NoError, pkg |-> <<>>]

\* throw new Error(msg), the builder left as b
Throws(b, msg) == [b |-> b, err |-> msg, pkg |-> <<>>]

withFruits(b, fruits) == ReturnsThis([b EXCEPT !.fruits = fruits])

withVegetables(b, vegetables) == ReturnsThis([b EXCEPT !.vegetables = vegetables])

WithPriceAssignsFirst(b, price) ==
    IF price < 0
    THEN Throws([b EXCEPT !.price = price], "Price cannot be negative")
    ELSE ReturnsThis([b EXCEPT !.price = price])

withPrice(b, price) ==
    IF price < 0
    THEN Throws(b, "Price cannot be negative")
    ELSE ReturnsThis([b EXCEPT !.price = price])

AsGiftClearsMessage(b, isGift) ==
    ReturnsThis([b EXCEPT !.isGift = isGift, !.customMessage = <<>>])

asGift(b, isGift) == ReturnsThis([b EXCEPT !.isGift = isGift])

WithDiscountAssignsFirst(b, percent) ==
    LET c == [b EXCEPT !.hasDiscount = percent > 0, !.discountPercent = percent] IN
    IF percent < 0 \/ percent > 100
    THEN Throws(c, "Discount must be between 0 and 100")
    ELSE ReturnsThis(c)

withDiscount(b, percent) ==
    IF percent < 0 \/ percent > 100
    THEN Throws(b, "Discount must be between 0 and 100")
    ELSE ReturnsThis([b EXCEPT !.hasDiscount = percent > 0,
                               !.discountPercent = percent])

withRecyclablePackaging(b, recyclable) ==
    ReturnsThis([b EXCEPT !.recyclablePackaging = recyclable])

withCustomMessage(b, message) == ReturnsThis([b EXCEPT !.customMessage = message])

withDeliveryDate(b, date) ==
    IF date < Now
    THEN Throws(b, "Delivery date cannot be in the past")
    ELSE ReturnsThis([b EXCEPT !.deliveryDate = <<date>>])

calculateTotalItems(b) == Len(b.fruits) + Len(b.vegetables)

\* new ProducePackage(builder)
ProducePackage(b) ==
    [name |-> b.name, fruits |-> b.fruits, vegetables |-> b.vegetables,
     totalItems |-> calculateTotalItems(b), price |-> b.price,
     isGift |-> b.isGift, hasDiscount |-> b.hasDiscount,
     discountPercent |-> b.discountPercent,
     recyclablePackaging |-> b.recyclablePackaging,
     customMessage |-> b.customMessage, deliveryDate |-> b.deliveryDate]

BuildUntrimmed(b) ==
    IF Len(b.name) = 0
    THEN Throws(b, "Package name cannot be empty")
    ELSE IF Len(b.fruits) = 0 /\ Len(b.vegetables) = 0
    THEN Throws(b, "Package must contain at least one item")
    ELSE IF b.isGift /\ Len(b.customMessage) = 0
    THEN Throws(b, "Gift packages must include a custom message")
    ELSE [b |-> b, err |-> NoError, pkg |-> <<ProducePackage(b)>>]

build(b) ==
    IF Len(trim(b.name)) = 0
    THEN Throws(b, "Package name cannot be empty")
    ELSE IF Len(b.fruits) = 0 /\ Len(b.vegetables) = 0
    THEN Throws(b, "Package must contain at least one item")
    ELSE IF b.isGift /\ Len(trim(b.customMessage)) = 0
    THEN Throws(b, "Gift packages must include a custom message")
    ELSE [b |-> b, err |-> NoError, pkg |-> <<ProducePackage(b)>>]

\* before ProducePackage.builder(name) is called:
\*   made  a builder exists
\*   b     its fields
\*   op    the last call on it, n that call's numeric argument
\*   err   the message of the Error the last call threw
\*   pkg   the ProducePackage the last call returned
BuilderIdle ==
    [made |-> FALSE, b |-> ProducePackageBuilder(<<>>), op |-> "none", n |-> 0,
     err |-> NoError, pkg |-> <<>>]

\* ------------------------------------------------ ProduceBundle, BundleItem
\* the objects live in a heap, and a reference is an index into it:
\*   objs     the BundleItem objects
\*   arrs     the Array<BundleItem> objects, each a sequence of references
\*   strs     the string[] objects
\*   bundles  the ProduceBundle objects; items and tags are references
NewHeap == [objs |-> <<>>, arrs |-> <<>>, strs |-> <<>>, bundles |-> <<>>]

\* new BundleItem(name, price, quantity, organic)
BundleItem(name, price, quantity, organic) ==
    [name |-> name, price |-> price, quantity |-> quantity, organic |-> organic]

\* BundleItem.clone
itemClone(item) == BundleItem(item.name, item.price, item.quantity, item.organic)

\* new ProduceBundle(name, items, discountPercentage, tags, seasonal): the
\* arrays passed are stored as they are
ProduceBundle(name, items, discountPercentage, tags, seasonal) ==
    [name |-> name, items |-> items, discountPercentage |-> discountPercentage,
     tags |-> tags, seasonal |-> seasonal]

\* the heap with one more object, in turn, of each kind
AllocItems(h, items) == [h EXCEPT !.objs = h.objs \o items]
AllocArray(h, refs) == [h EXCEPT !.arrs = Append(h.arrs, refs)]
AllocStrings(h, tags) == [h EXCEPT !.strs = Append(h.strs, tags)]
AllocBundle(h, bundle) == [h EXCEPT !.bundles = Append(h.bundles, bundle)]

CloneShallow(h, b) ==
    LET this == h.bundles[b]
        h1 == AllocBundle(h, ProduceBundle(this.name, this.items,
                  this.discountPercentage, this.tags, this.seasonal))
    IN  [h |-> h1, ret |-> Len(h1.bundles)]

CloneSharesItems(h, b) ==
    LET this == h.bundles[b]
        h3 == AllocStrings(h, h.strs[this.tags])
        h4 == AllocBundle(h3, ProduceBundle(this.name, this.items,
                  this.discountPercentage, Len(h3.strs), this.seasonal))
    IN  [h |-> h4, ret |-> Len(h4.bundles)]

\* ProduceBundle.clone, on the bundle b of the heap h
clone(h, b) ==
    LET this == h.bundles[b]
        refs == h.arrs[this.items]
        h1 == AllocItems(h, [k \in 1..Len(refs) |-> itemClone(h.objs[refs[k]])])
        clonedItems == [k \in 1..Len(refs) |-> Len(h.objs) + k]
        h2 == AllocArray(h1, clonedItems)
        h3 == AllocStrings(h2, h.strs[this.tags])
        h4 == AllocBundle(h3, ProduceBundle(this.name, Len(h2.arrs),
                  this.discountPercentage, Len(h3.strs), this.seasonal))
    IN  [h |-> h4, ret |-> Len(h4.bundles)]

\* Object.assign(target, options): the properties options names (its set;
\* name, discountPercentage, tags and seasonal are the ones passed here) are
\* written into the bundle, tags as the reference options holds
assign(h, target, options) ==
    LET t == h.bundles[target]
        u == [name |-> IF "name" \in options.set THEN options.name ELSE t.name,
              items |-> t.items,
              discountPercentage |->
                  IF "discountPercentage" \in options.set
                  THEN options.discountPercentage ELSE t.discountPercentage,
              tags |-> IF "tags" \in options.set THEN options.tags ELSE t.tags,
              seasonal |->
                  IF "seasonal" \in options.set THEN options.seasonal ELSE t.seasonal]
    IN  [h EXCEPT !.bundles[target] = u]

CreateVariantInPlace(h, b, options) ==
    LET r == clone(assign(h, b, options), b) IN [h |-> r.h, ret |-> r.ret]

\* ProduceBundle.createVariant
createVariant(h, b, options) ==
    LET r == clone(h, b) IN [h |-> assign(r.h, r.ret, options), ret |-> r.ret]

\* options that name nothing
NoOptions ==
    [set |-> {}, name |-> "", discountPercentage |-> 0, tags |-> <<>>,
     seasonal |-> FALSE]

\* before the template bundle is made:
\*   h     the heap
\*   how   how each bundle was made
\*   op    the last operation; for clone and createVariant, src is the
\*         bundle it was called on, res the bundle it returned and opts the
\*         options it was given
ProtoIdle ==
    [h |-> NewHeap, how |-> <<>>, op |-> "none", src |-> 0, res |-> 0,
     opts |-> NoOptions]

\* ------------------------------------------------------- the fruit factories
\* a product is what its methods return; prices and costs are in cents, and
\* a method the product's interface does not have is left at NoString, 0 or
\* FALSE
NoString == ""

Fruit(class, product, type, price) ==
    [class |-> class, product |-> product, type |-> type, price |-> price,
     material |-> NoString, recyclable |-> FALSE, capacity |-> 0,
     ribbon |-> FALSE]

Packaging(class, product, material, recyclable, cost, capacity, ribbon) ==
    [class |-> class, product |-> product, type |-> NoString, price |-> cost,
     material |-> material, recyclable |-> recyclable, capacity |-> capacity,
     ribbon |-> ribbon]

RegularApple == Fruit("RegularApple", "apple", "regular", 99)
OrganicApple == Fruit("OrganicApple", "apple", "organic", 199)
RegularMelon == Fruit("RegularMelon", "melon", "regular", 399)
OrganicMelon == Fruit("OrganicMelon", "melon", "organic", 699)

RegularFruitBox ==
    Packaging("RegularFruitBox", "fruitBox", "cardboard", TRUE, 50, 6, FALSE)

RegularGiftWrapping ==
    Packaging("RegularGiftWrapping", "giftWrapping", "standard paper", TRUE,
              150, 0, FALSE)

OrganicFruitBox ==
    Packaging("OrganicFruitBox", "fruitBox", "compostable fiber", TRUE, 125, 8,
              FALSE)

OrganicGiftWrapping ==
    Packaging("OrganicGiftWrapping", "giftWrapping",
              "recycled paper with soy-based ink", TRUE, 375, 0, TRUE)

\* class RegularFruitFactory: what each method returns
RegularFruitFactory(method) ==
    CASE method = "createApple" -> RegularApple
      [] method = "createMelon" -> RegularMelon
      [] method = "createFruitBox" -> RegularFruitBox
      [] method = "createGiftWrapping" -> RegularGiftWrapping

OrganicFruitFactoryMixed(method) ==
    CASE method = "createApple" -> OrganicApple
      [] method = "createMelon" -> OrganicMelon
      [] method = "createFruitBox" -> OrganicFruitBox
      [] method = "createGiftWrapping" -> RegularGiftWrapping

\* class OrganicFruitFactory: what each method returns
OrganicFruitFactory(method) ==
    CASE method = "createApple" -> OrganicApple
      [] method = "createMelon" -> OrganicMelon
      [] method = "createFruitBox" -> OrganicFruitBox
      [] method = "createGiftWrapping" -> OrganicGiftWrapping

Factories == {"regular", "organic"}

\* selectedFactory === 'regular' ? new RegularFruitFactory()
\*                               : new OrganicFruitFactory(), and a call on it
create(selectedFactory, method) ==
    IF selectedFactory = "regular"
    THEN RegularFruitFactory(method)
    ELSE OrganicFruitFactory(method)

\* the demo as it starts: the regular factory selected, nothing created
FactoryIdle == [selectedFactory |-> "regular", createdItems |-> <<>>]

\* --------------------------------------------- fluent calls in two orders
\* a call of a fluent method: its name and its argument, of which the field
\* that the method takes is read
FluentCall(method, list, n, flag, text) ==
    [method |-> method, list |-> list, n |-> n, flag |-> flag, text |-> text]

\* the builder after the call c on the builder b; a call that throws leaves
\* it to the caller, who goes on with the builder
apply(b, c) ==
    CASE c.method = "withFruits" -> withFruits(b, c.list).b
      [] c.method = "withVegetables" -> withVegetables(b, c.list).b
      [] c.method = "withPrice" -> withPrice(b, c.n).b
      [] c.method = "asGift" -> asGift(b, c.flag).b
      [] c.method = "withDiscount" -> withDiscount(b, c.n).b
      [] c.method = "withRecyclablePackaging" -> withRecyclablePackaging(b, c.flag).b
      [] c.method = "withCustomMessage" -> withCustomMessage(b, c.text).b

\* what build() gives its caller: the Error thrown or the package returned
Outcome(r) == [err |-> r.err, pkg |-> r.pkg]

\* no build() yet
NoOutcome == [err |-> NoError, pkg |-> <<>>]

\* before the two builders are made:
\*   x, y     the two builders
\*   swapped  two calls were made on x in one order and on y in the other
\*   op       the last step
\*   outX     the outcome of build() on x, outY that on y
OrderIdle ==
    [made |-> FALSE, x |-> ProducePackageBuilder(<<>>),
     y |-> ProducePackageBuilder(<<>>), swapped |-> FALSE, op |-> "none",
     outX |-> NoOutcome, outY |-> NoOutcome]

\* ------------------------------------- a package and the arrays it holds
\* the string[] objects live in a heap h, a function from references to
\* their contents; the fruits and vegetables of a builder and of a package
\* are references, and NoRef is none
MaxPackages == 1
NoRef == 0
ArrayRefs == 1..(2 * MaxPackages + 4)

\* the builder b with the contents of its two arrays in their place
Deref(h, b) == [b EXCEPT !.fruits = h[b.fruits], !.vegetables = h[b.vegetables]]

\* this.fruits = [...fruits]: the new array is r
withFruitsAt(h, b, r, fruits) ==
    [h |-> [h EXCEPT ![r] = fruits], b |-> [b EXCEPT !.fruits = r]]

\* this.vegetables = [...vegetables]: the new array is r
withVegetablesAt(h, b, r, vegetables) ==
    [h |-> [h EXCEPT ![r] = vegetables], b |-> [b EXCEPT !.vegetables = r]]

\* new ProducePackage(builder): this.fruits = builder.fruits and
\* this.vegetables = builder.vegetables are the builder's own arrays
ProducePackageAt(h, b) ==
    [ProducePackage(Deref(h, b)) EXCEPT !.fruits = b.fruits,
                                        !.vegetables = b.vegetables]

\* build(): the Error thrown, or the package returned
buildAt(h, b) ==
    LET r == build(Deref(h, b)) IN
    [err |-> r.err,
     pkg |-> IF r.err = NoError THEN <<ProducePackageAt(h, b)>> ELSE <<>>]

GetFruitsReturnsField(h, p, r) == [h |-> h, ret |-> p.fruits]

\* getFruits(): [...this.fruits], the new array is r
getFruits(h, p, r) == [h |-> [h EXCEPT ![r] = h[p.fruits]], ret |-> r]

\* getVegetables(): [...this.vegetables], the new array is r
getVegetables(h, p, r) == [h |-> [h EXCEPT ![r] = h[p.vegetables]], ret |-> r]

\* getDiscountedPrice(), in hundredths of a cent
getDiscountedPrice(p) ==
    IF ~p.hasDiscount THEN p.price * 100 ELSE p.price * (100 - p.discountPercent)

\* what the getters of the package p return
Getters(h, p) ==
    [getName |-> p.name, getFruits |-> h[p.fruits],
     getVegetables |-> h[p.vegetables], getTotalItems |-> p.totalItems,
     getPrice |-> p.price, getIsGift |-> p.isGift,
     getHasDiscount |-> p.hasDiscount, getDiscountPercent |-> p.discountPercent,
     getRecyclablePackaging |-> p.recyclablePackaging,
     getCustomMessage |-> p.customMessage, getDeliveryDate |-> p.deliveryDate,
     getDiscountedPrice |-> getDiscountedPrice(p)]

\* before ProducePackage.builder(name):
\*   h     the arrays
\*   b     the builder
\*   pkgs  the packages built and kept, each with what its getters returned
\*         when build() returned it
\*   held  the array a getFruits() or getVegetables() returned to the caller
PackageIdle ==
    [made |-> FALSE, h |-> [r \in ArrayRefs |-> <<>>],
     b |-> [ProducePackageBuilder(<<>>) EXCEPT !.fruits = NoRef, !.vegetables = NoRef],
     pkgs |-> <<>>, held |-> NoRef]

\* ------------------------------------------------------ the Singleton demo
\* the component's state and the Inventory behind it:
\*   itemName, quantity, price, sellQuantity   the input fields
\*   heap, instance   the Inventory objects and Inventory.instance
\*   handler    the handler that ran last, "input" after a change of a field
\*   calls      the number of calls that handler made on Inventory
\*   appended   the lines that handler appended to the log (appendLog keeps
\*              the lines before them)
\* prices are in cents
DemoIdle ==
    [itemName |-> "", quantity |-> 1, price |-> 99, sellQuantity |-> 1,
     heap |-> <<>>, instance |-> Null, handler |-> "none", calls |-> 0,
     appended |-> <<>>]

\* a handler that returned at `if (!itemName) return`
Returned(u, handler) ==
    [u EXCEPT !.handler = handler, !.calls = 0, !.appended = <<>>]

HandleAddItemUnguarded(u) ==
    LET g == getInstance(u.heap, u.instance)
        inv == addItem(g.heap[g.ret], u.itemName, u.quantity, u.price)
    IN  [u EXCEPT !.heap = [g.heap EXCEPT ![g.ret] = inv],
                  !.instance = g.instance,
                  !.itemName = "", !.quantity = 1, !.price = 99,
                  !.handler = "handleAddItem", !.calls = 2,
                  !.appended = <<"Added">>]

handleAddItem(u) ==
    IF u.itemName = ""
    THEN Returned(u, "handleAddItem")
    ELSE LET g == getInstance(u.heap, u.instance)
             inv == addItem(g.heap[g.ret], u.itemName, u.quantity, u.price)
         IN  [u EXCEPT !.heap = [g.heap EXCEPT ![g.ret] = inv],
                       !.instance = g.instance,
                       !.itemName = "", !.quantity = 1, !.price = 99,
                       !.handler = "handleAddItem", !.calls = 2,
                       !.appended = <<"Added">>]

handleSellItem(u) ==
    IF u.itemName = ""
    THEN Returned(u, "handleSellItem")
    ELSE LET g == getInstance(u.heap, u.instance)
             r == sellItem(g.heap[g.ret], u.itemName, u.sellQuantity)
         IN  [u EXCEPT !.heap = [g.heap EXCEPT ![g.ret] = r.inv],
                       !.instance = g.instance,
                       !.sellQuantity = 1,
                       !.handler = "handleSellItem", !.calls = 2,
                       !.appended = IF r.ret THEN <<"Sold">>
                                    ELSE <<"Failed to sell">>]

handleCheckStock(u) ==
    IF u.itemName = ""
    THEN Returned(u, "handleCheckStock")
    ELSE LET g == getInstance(u.heap, u.instance)
             inv == AfterQuery(AfterQuery(g.heap[g.ret], u.itemName), u.itemName)
         IN  [u EXCEPT !.heap = [g.heap EXCEPT ![g.ret] = inv],
                       !.instance = g.instance,
                       !.handler = "handleCheckStock", !.calls = 3,
                       !.appended = <<"Stock check">>]

handleShowAllItems(u) ==
    LET g == getInstance(u.heap, u.instance)
        items == getAllItems(g.heap[g.ret])
    IN  [u EXCEPT !.heap = g.heap, !.instance = g.instance,
                  !.handler = "handleShowAllItems",
                  !.calls = 2 + Len(items),
                  !.appended =
                      IF Len(items) = 0
                      THEN <<"Inventory is empty">>
                      ELSE <<"Current inventory:">>
                               \o [i \in 1..Len(items) |-> "- item"]]

\* ------------------------------------------------------ the Prototype demo
\* String.prototype.split(","), on a string as a sequence of characters: the
\* pieces between the commas
RECURSIVE split(_)
split(s) ==
    IF \E i \in 1..Len(s) : s[i] = ","
    THEN LET i == CHOOSE k \in 1..Len(s) :
                      s[k] = "," /\ \A j \in 1..(k - 1) : s[j] # ","
         IN  <<SubSeq(s, 1, i - 1)>> \o split(SubSeq(s, i + 1, Len(s)))
    ELSE <<s>>

\* newTags.split(',').map(t => t.trim())
splitTags(newTags) == LET ps == split(newTags) IN [k \in 1..Len(ps) |-> trim(ps[k])]

\* the number of the elements of S that are at most i, and the k-th of S
Rank(S, i) == Cardinality({j \in S : j <= i})
Nth(S, k) == CHOOSE i \in S : Rank(S, i) = k

\* the heap h with only the objects that the bundles of the collection
\* reach, the others being garbage, and the collection in that heap
Compact(h, bundles) ==
    LET B == {bundles[i] : i \in 1..Len(bundles)}
        A == {h.bundles[b].items : b \in B}
        T == {h.bundles[b].tags : b \in B}
        O == UNION {{h.arrs[a][k] : k \in 1..Len(h.arrs[a])} : a \in A}
    IN  [h |-> [objs |-> [k \in 1..Cardinality(O) |-> h.objs[Nth(O, k)]],
                arrs |-> [k \in 1..Cardinality(A) |->
                             [j \in 1..Len(h.arrs[Nth(A, k)]) |->
                                 Rank(O, h.arrs[Nth(A, k)][j])]],
                strs |-> [k \in 1..Cardinality(T) |-> h.strs[Nth(T, k)]],
                bundles |-> [k \in 1..Cardinality(B) |->
                                [h.bundles[Nth(B, k)] EXCEPT
                                    !.items = Rank(A, h.bundles[Nth(B, k)].items),
                                    !.tags = Rank(T, h.bundles[Nth(B, k)].tags)]]],
         bundles |-> [i \in 1..Len(bundles) |-> Rank(B, bundles[i])]]

\* the component as it starts:
\*   h         the heap of the bundles, their items and their arrays
\*   bundles   the collection: references to ProduceBundle objects
\*   selected  selectedBundleIndex + 1, 0 when it is -1
\*   handler   the handler that ran last, and whether it returned early
PrototypeDemoIdle ==
    [h |-> NewHeap, bundles |-> <<>>, selected |-> 0, handler |-> "none",
     early |-> FALSE]

\* a handler that returned before it did anything
ReturnedEarly(d, handler) == [d EXCEPT !.handler = handler, !.early = TRUE]

\* a handler that ran to its end, leaving the heap as h and calling
\* setBundles(bundles)
Handled(d, handler, h, bundles) ==
    LET c == Compact(h, bundles) IN
    [d EXCEPT !.h = c.h, !.bundles = c.bundles, !.handler = handler,
              !.early = FALSE]

\* createTemplateBundle
createTemplateBundle(d) ==
    LET h1 == AllocItems(d.h,
                  <<BundleItem(<<"A", "p", "p", "l", "e">>, 99, 3, FALSE),
                    BundleItem(<<"B", "a", "n", "a", "n", "a">>, 79, 5, FALSE),
                    BundleItem(<<"C", "a", "r", "r", "o", "t">>, 149, 4, FALSE)>>)
        n == Len(d.h.objs)
        h2 == AllocArray(h1, <<n + 1, n + 2, n + 3>>)
        h3 == AllocStrings(h2, <<<<"p", "o", "p", "u", "l", "a", "r">>,
                                 <<"b", "a", "s", "i", "c">>>>)
        h4 == AllocBundle(h3,
                  ProduceBundle(<<"B", "a", "s", "i", "c", " ", "B", "u", "n", "d", "l", "e">>,
                                Len(h2.arrs), 5, Len(h3.strs), FALSE))
    IN  Handled(d, "createTemplateBundle", h4, <<Len(h4.bundles)>>)

\* addItemToBundle
addItemToBundle(d, newItemName, newItemPrice, newItemQuantity, newItemOrganic) ==
    IF d.selected = 0
    THEN ReturnedEarly(d, "addItemToBundle")
    ELSE IF Len(trim(newItemName)) = 0
    THEN ReturnedEarly(d, "addItemToBundle")
    ELSE LET r == clone(d.h, d.bundles[d.selected])
             a == r.h.bundles[r.ret].items
             h1 == AllocItems(r.h, <<BundleItem(newItemName, newItemPrice,
                                                newItemQuantity, newItemOrganic)>>)
             h2 == [h1 EXCEPT !.arrs[a] = Append(h1.arrs[a], Len(h1.objs))]
         IN  Handled(d, "addItemToBundle", h2,
                     [d.bundles EXCEPT ![d.selected] = r.ret])

\* createVariant of the component
demoCreateVariant(d, newBundleName, newDiscount, newSeasonal, newTags) ==
    IF d.selected = 0
    THEN ReturnedEarly(d, "createVariant")
    ELSE IF Len(trim(newBundleName)) = 0
    THEN ReturnedEarly(d, "createVariant")
    ELSE LET sourceBundle == d.h.bundles[d.bundles[d.selected]]
             h1 == AllocStrings(d.h,
                       IF Len(trim(newTags)) # 0
                       THEN d.h.strs[sourceBundle.tags] \o splitTags(newTags)
                       ELSE d.h.strs[sourceBundle.tags])
             options == [set |-> {"name", "discountPercentage", "seasonal", "tags"},
                         name |-> newBundleName,
                         discountPercentage |->
                             IF newDiscount # 0 THEN newDiscount
                             ELSE sourceBundle.discountPercentage,
                         tags |-> Len(h1.strs),
                         seasonal |-> newSeasonal]
             r == createVariant(h1, d.bundles[d.selected], options)
         IN  Handled(d, "createVariant", r.h, Append(d.bundles, r.ret))

\* ------------------------------------------------------------------- state
InventoryInit ==
    /\ heap = <<>>
    /\ instance = Null
    /\ handles = [h \in Handles |-> Null]
    /\ last = NoCall
    /\ ref = NewInventory
    /\ lastPrice = [n \in Names |-> <<>>]
    /\ ledger = [n \in Names |-> 0]

Init ==
    /\ InventoryInit
    /\ snap = SnapIdle
    /\ bld = BuilderIdle
    /\ proto = ProtoIdle
    /\ fac = FactoryIdle
    /\ ord = OrderIdle
    /\ pk = PackageIdle
    /\ ui = DemoIdle
    /\ pd = PrototypeDemoIdle

\* const x = Inventory.getInstance(), by caller h
GetInstance(h) ==
    LET r == getInstance(heap, instance) IN
    /\ Len(r.heap) <= MaxObjects
    /\ heap' = r.heap
    /\ instance' = r.instance
    /\ handles' = [handles EXCEPT ![h] = r.ret]
    /\ last' = Call("getInstance", NoName, 0, FALSE, RetObj(r.ret), RetVoid)
    /\ UNCHANGED <<ref, lastPrice, ledger>>

\* x.addItem(name, quantity, price), x the handle of caller h
AddItem(h, name, quantity, price) ==
    /\ handles[h] # Null
    /\ LET r == addItem(heap[handles[h]], name, quantity, price)
           rr == addItem(ref, name, quantity, price) IN
       /\ InRange(r)
       /\ InRange(rr)
       /\ heap' = [heap EXCEPT ![handles[h]] = r]
       /\ ref' = rr
       /\ last' = Call("addItem", name, quantity,
                       ~MapHas(heap[handles[h]].items, name)
                           /\ ~MapHas(heap[handles[h]].prices, name),
                       RetVoid, RetVoid)
    /\ lastPrice' = [lastPrice EXCEPT ![name] = <<price>>]
    /\ ledger' = [ledger EXCEPT ![name] = @ + quantity]
    /\ UNCHANGED <<instance, handles>>

\* x.sellItem(name, quantity)
SellItem(h, name, quantity) ==
    /\ handles[h] # Null
    /\ LET r == sellItem(heap[handles[h]], name, quantity)
           rr == sellItem(ref, name, quantity) IN
       /\ InRange(r.inv)
       /\ InRange(rr.inv)
       /\ heap' = [heap EXCEPT ![handles[h]] = r.inv]
       /\ ref' = rr.inv
       /\ last' = IF r.err THEN Thrown("sellItem", name, quantity)
                  ELSE Call("sellItem", name, quantity, FALSE,
                            RetBool(r.ret), RetBool(rr.ret))
       /\ ledger' = IF ~r.err /\ r.ret
                    THEN [ledger EXCEPT ![name] = @ - quantity]
                    ELSE ledger
    /\ UNCHANGED <<instance, handles, lastPrice>>

\* x.getStockCount(name)
GetStockCount(h, name) ==
    /\ handles[h] # Null
    /\ last' = Call("getStockCount", name, 0, FALSE,
                    RetNum(getStockCount(heap[handles[h]], name)),
                    RetNum(getStockCount(ref, name)))
    /\ heap' = [heap EXCEPT ![handles[h]] = AfterQuery(heap[handles[h]], name)]
    /\ UNCHANGED <<instance, handles, ref, lastPrice, ledger>>

\* x.getPrice(name)
GetPrice(h, name) ==
    /\ handles[h] # Null
    /\ last' = Call("getPrice", name, 0, FALSE,
                    RetNum(getPrice(heap[handles[h]], name)),
                    RetNum(getPrice(ref, name)))
    /\ heap' = [heap EXCEPT ![handles[h]] = AfterQuery(heap[handles[h]], name)]
    /\ UNCHANGED <<instance, handles, ref, lastPrice, ledger>>

\* x.getAllItems()
GetAllItems(h) ==
    /\ handles[h] # Null
    /\ last' = Call("getAllItems", NoName, 0, FALSE,
                    RetEntries(getAllItems(heap[handles[h]])),
                    RetEntries(getAllItems(ref)))
    /\ heap' = [heap EXCEPT ![handles[h]] = AfterQuery(heap[handles[h]], NoName)]
    /\ UNCHANGED <<instance, handles, ref, lastPrice, ledger>>

\* the callers of the Inventory: the other objects are not touched
Next ==
    \/ \E h \in Handles : GetInstance(h) /\ UNCHANGED <<snap, bld, proto, fac, ord, pk, ui, pd>>
    \/ \E h \in Handles, n \in Names, q \in Quantities, p \in PriceValues :
           AddItem(h, n, q, p) /\ UNCHANGED <<snap, bld, proto, fac, ord, pk, ui, pd>>
    \/ \E h \in Handles, n \in Names, q \in Quantities :
           SellItem(h, n, q) /\ UNCHANGED <<snap, bld, proto, fac, ord, pk, ui, pd>>
    \/ \E h \in Handles, n \in Names :
           GetStockCount(h, n) /\ UNCHANGED <<snap, bld, proto, fac, ord, pk, ui, pd>>
    \/ \E h \in Handles, n \in Names :
           GetPrice(h, n) /\ UNCHANGED <<snap, bld, proto, fac, ord, pk, ui, pd>>
    \/ \E h \in Handles : GetAllItems(h) /\ UNCHANGED <<snap, bld, proto, fac, ord, pk, ui, pd>>

Spec == Init /\ [][Next]_vars

\* ---------------------------------- a caller that keeps the returned array
\* const arr = inventory.getAllItems()
SnapGetAllItems ==
    LET arr == getAllItems(snap.inv) IN
    snap' = [snap EXCEPT !.has = TRUE, !.held = arr, !.orig = arr, !.expect = arr,
                         !.dirty = FALSE, !.op = "getAllItems"]

\* inventory.addItem(name, quantity, price) while the array is held
SnapAddItem(name, quantity, price) ==
    LET r == addItem(snap.inv, name, quantity, price) IN
    /\ InRange(r)
    /\ snap' = [snap EXCEPT !.inv = r, !.held = HeldAfter(r), !.dirty = TRUE,
                            !.op = "addItem"]

\* inventory.sellItem(name, quantity) while the array is held
SnapSellItem(name, quantity) ==
    LET r == sellItem(snap.inv, name, quantity) IN
    /\ InRange(r.inv)
    /\ snap' = [snap EXCEPT !.inv = r.inv, !.held = HeldAfter(r.inv), !.dirty = TRUE,
                            !.op = "sellItem"]

\* arr.pop(), by the caller
SnapPop ==
    /\ snap.has
    /\ Len(snap.held) > 0
    /\ LET arr == SubSeq(snap.held, 1, Len(snap.held) - 1) IN
       snap' = [snap EXCEPT !.held = arr, !.expect = SubSeq(snap.expect, 1, Len(snap.expect) - 1),
                            !.inv = InvAfter(arr), !.op = "change"]

\* arr[0][1] = 0, by the caller
SnapOverwrite ==
    /\ snap.has
    /\ Len(snap.held) > 0
    /\ Len(snap.expect) > 0
    /\ LET arr == [snap.held EXCEPT ![1] = <<snap.held[1][1], 0>>] IN
       snap' = [snap EXCEPT !.held = arr,
                            !.expect = [snap.expect EXCEPT ![1] = <<snap.expect[1][1], 0>>],
                            !.inv = InvAfter(arr), !.op = "change"]

\* the quantities and the price this caller passes
SnapQuantities == 1..MaxQty
SnapPrices == {150}

SnapNext ==
    \/ SnapGetAllItems /\ UNCHANGED <<inventoryVars, bld, proto, fac, ord, pk, ui, pd>>
    \/ \E n \in Names, q \in SnapQuantities, p \in SnapPrices :
           SnapAddItem(n, q, p) /\ UNCHANGED <<inventoryVars, bld, proto, fac, ord, pk, ui, pd>>
    \/ \E n \in Names, q \in SnapQuantities :
           SnapSellItem(n, q) /\ UNCHANGED <<inventoryVars, bld, proto, fac, ord, pk, ui, pd>>
    \/ SnapPop /\ UNCHANGED <<inventoryVars, bld, proto, fac, ord, pk, ui, pd>>
    \/ SnapOverwrite /\ UNCHANGED <<inventoryVars, bld, proto, fac, ord, pk, ui, pd>>

SpecSnapshot == Init /\ [][SnapNext]_vars

\* ----------------------------------------------- calls on a package builder
PackageNames == {<<>>, <<" ">>, <<" ", "B">>}
FruitLists == {<<>>, <<"Apple">>}
VegetableLists == {<<>>, <<"Carrot">>}
PackagePrices == {0 - 1, 0, 1999}
Percents == {0 - 1, 0, 10, 100, 101}
Messages == {<<>>, <<"\t">>, <<"H">>}
Dates == {Now - 1, Now}

\* the builder after a call of op with numeric argument n and outcome r
BuilderCall(op, n, r) ==
    /\ bld.made
    /\ bld' = [made |-> TRUE, b |-> r.b, op |-> op, n |-> n, err |-> r.err,
               pkg |-> r.pkg]

\* const builder = ProducePackage.builder(name)
Builder(name) ==
    bld' = [made |-> TRUE, b |-> ProducePackageBuilder(name), op |-> "builder",
            n |-> 0, err |-> NoError, pkg |-> <<>>]

WithFruits(fruits) == BuilderCall("withFruits", 0, withFruits(bld.b, fruits))

WithVegetables(vegetables) ==
    BuilderCall("withVegetables", 0, withVegetables(bld.b, vegetables))

WithPrice(price) == BuilderCall("withPrice", price, withPrice(bld.b, price))

AsGift(isGift) == BuilderCall("asGift", 0, asGift(bld.b, isGift))

WithDiscount(percent) ==
    BuilderCall("withDiscount", percent, withDiscount(bld.b, percent))

WithRecyclablePackaging(recyclable) ==
    BuilderCall("withRecyclablePackaging", 0,
                withRecyclablePackaging(bld.b, recyclable))

WithCustomMessage(message) ==
    BuilderCall("withCustomMessage", 0, withCustomMessage(bld.b, message))

WithDeliveryDate(date) ==
    BuilderCall("withDeliveryDate", date, withDeliveryDate(bld.b, date))

Build == BuilderCall("build", 0, build(bld.b))

BuilderNext ==
    \/ \E name \in PackageNames :
           Builder(name) /\ UNCHANGED <<inventoryVars, snap, proto, fac, ord, pk, ui, pd>>
    \/ \E fruits \in FruitLists :
           WithFruits(fruits) /\ UNCHANGED <<inventoryVars, snap, proto, fac, ord, pk, ui, pd>>
    \/ \E vegetables \in VegetableLists :
           WithVegetables(vegetables) /\ UNCHANGED <<inventoryVars, snap, proto, fac, ord, pk, ui, pd>>
    \/ \E price \in PackagePrices :
           WithPrice(price) /\ UNCHANGED <<inventoryVars, snap, proto, fac, ord, pk, ui, pd>>
    \/ \E isGift \in BOOLEAN :
           AsGift(isGift) /\ UNCHANGED <<inventoryVars, snap, proto, fac, ord, pk, ui, pd>>
    \/ \E percent \in Percents :
           WithDiscount(percent) /\ UNCHANGED <<inventoryVars, snap, proto, fac, ord, pk, ui, pd>>
    \/ \E recyclable \in BOOLEAN :
           WithRecyclablePackaging(recyclable)
           /\ UNCHANGED <<inventoryVars, snap, proto, fac, ord, pk, ui, pd>>
    \/ \E message \in Messages :
           WithCustomMessage(message) /\ UNCHANGED <<inventoryVars, snap, proto, fac, ord, pk, ui, pd>>
    \/ \E date \in Dates :
           WithDeliveryDate(date) /\ UNCHANGED <<inventoryVars, snap, proto, fac, ord, pk, ui, pd>>
    \/ Build /\ UNCHANGED <<inventoryVars, snap, proto, fac, ord, pk, ui, pd>>

SpecBuilder == Init /\ [][BuilderNext]_vars

\* ------------------------------------------------- operations on bundles
MaxBundles == 3
MaxItems == 2
MaxTags == 2

\* what a caller passes to createVariant; tags is the content of a new array
Options ==
    { [NoOptions EXCEPT !.set = {"name", "discountPercentage"},
                        !.name = "Weekend Special", !.discountPercentage = 15],
      [NoOptions EXCEPT !.set = {"tags", "seasonal"},
                        !.tags = <<"seasonal">>, !.seasonal = TRUE] }

ItemQuantities == {6}

BundleRefs == 1..Len(proto.h.bundles)

\* new ProduceBundle("Weekday Mix", [new BundleItem("Carrot", 1.99, 5)], 10,
\*                   ["popular"])
NewBundle ==
    /\ Len(proto.h.bundles) = 0
    /\ LET h1 == AllocItems(proto.h, <<BundleItem("Carrot", 199, 5, FALSE)>>)
           h2 == AllocArray(h1, <<Len(h1.objs)>>)
           h3 == AllocStrings(h2, <<"popular">>)
           h4 == AllocBundle(h3, ProduceBundle("Weekday Mix", Len(h2.arrs), 10,
                                               Len(h3.strs), FALSE))
       IN  proto' = [h |-> h4, how |-> <<"new">>, op |-> "new", src |-> 0,
                     res |-> Len(h4.bundles), opts |-> NoOptions]

\* const c = b.clone()
Clone(b) ==
    /\ Len(proto.h.bundles) < MaxBundles
    /\ LET r == clone(proto.h, b) IN
       proto' = [h |-> r.h, how |-> Append(proto.how, "clone"), op |-> "clone",
                 src |-> b, res |-> r.ret, opts |-> NoOptions]

\* const v = b.createVariant(options), its tags a new array
CreateVariant(b, options) ==
    /\ Len(proto.h.bundles) < MaxBundles
    /\ LET h1 == IF "tags" \in options.set
                 THEN AllocStrings(proto.h, options.tags)
                 ELSE proto.h
           o == [options EXCEPT !.tags = Len(h1.strs)]
           r == createVariant(h1, b, o)
       IN  proto' = [h |-> r.h, how |-> Append(proto.how, "variant"),
                     op |-> "createVariant", src |-> b, res |-> r.ret,
                     opts |-> options]

\* b.items.push(new BundleItem("Apple", 0.99, 3))
PushItem(b) ==
    LET a == proto.h.bundles[b].items
        h1 == AllocItems(proto.h, <<BundleItem("Apple", 99, 3, FALSE)>>)
    IN  /\ Len(proto.h.arrs[a]) < MaxItems
        /\ proto' = [proto EXCEPT
               !.h = [h1 EXCEPT !.arrs[a] = Append(h1.arrs[a], Len(h1.objs))],
               !.op = "change", !.src = 0, !.res = 0, !.opts = NoOptions]

\* b.items[0].quantity = quantity
SetQuantity(b, quantity) ==
    LET a == proto.h.bundles[b].items IN
    /\ Len(proto.h.arrs[a]) >= 1
    /\ proto' = [proto EXCEPT
           !.h.objs[proto.h.arrs[a][1]].quantity = quantity,
           !.op = "change", !.src = 0, !.res = 0, !.opts = NoOptions]

\* b.tags.push("limited")
PushTag(b) ==
    LET t == proto.h.bundles[b].tags IN
    /\ Len(proto.h.strs[t]) < MaxTags
    /\ proto' = [proto EXCEPT
           !.h.strs[t] = Append(proto.h.strs[t], "limited"),
           !.op = "change", !.src = 0, !.res = 0, !.opts = NoOptions]

ProtoNext ==
    \/ NewBundle /\ UNCHANGED <<inventoryVars, snap, bld, fac, ord, pk, ui, pd>>
    \/ \E b \in BundleRefs : Clone(b) /\ UNCHANGED <<inventoryVars, snap, bld, fac, ord, pk, ui, pd>>
    \/ \E b \in BundleRefs, options \in Options :
           CreateVariant(b, options) /\ UNCHANGED <<inventoryVars, snap, bld, fac, ord, pk, ui, pd>>
    \/ \E b \in BundleRefs : PushItem(b) /\ UNCHANGED <<inventoryVars, snap, bld, fac, ord, pk, ui, pd>>
    \/ \E b \in BundleRefs, quantity \in ItemQuantities :
           SetQuantity(b, quantity) /\ UNCHANGED <<inventoryVars, snap, bld, fac, ord, pk, ui, pd>>
    \/ \E b \in BundleRefs : PushTag(b) /\ UNCHANGED <<inventoryVars, snap, bld, fac, ord, pk, ui, pd>>

SpecPrototype == Init /\ [][ProtoNext]_vars

\* ------------------------------------------------- the factory demo's handlers
MaxCreated == 3

\* a created item: the factory that was selected and the products it made
Created(products) == [by |-> fac.selectedFactory, products |-> products]

AddCreated(products) ==
    /\ Len(fac.createdItems) < MaxCreated
    /\ fac' = [fac EXCEPT !.createdItems = Append(fac.createdItems, Created(products))]

SetSelectedFactory(value) == fac' = [fac EXCEPT !.selectedFactory = value]

HandleCreateApple == AddCreated(<<create(fac.selectedFactory, "createApple")>>)

HandleCreateMelon == AddCreated(<<create(fac.selectedFactory, "createMelon")>>)

HandleCreateFruitBox == AddCreated(<<create(fac.selectedFactory, "createFruitBox")>>)

HandleCreateGiftWrapping ==
    AddCreated(<<create(fac.selectedFactory, "createGiftWrapping")>>)

HandleCreateGiftBasket ==
    AddCreated(<<create(fac.selectedFactory, "createApple"),
                 create(fac.selectedFactory, "createMelon"),
                 create(fac.selectedFactory, "createFruitBox"),
                 create(fac.selectedFactory, "createGiftWrapping")>>)

HandleClearItems ==
    /\ Len(fac.createdItems) > 0
    /\ fac' = [fac EXCEPT !.createdItems = <<>>]

FactoryNext ==
    \/ \E value \in Factories :
           SetSelectedFactory(value) /\ UNCHANGED <<inventoryVars, snap, bld, proto, ord, pk, ui, pd>>
    \/ HandleCreateApple /\ UNCHANGED <<inventoryVars, snap, bld, proto, ord, pk, ui, pd>>
    \/ HandleCreateMelon /\ UNCHANGED <<inventoryVars, snap, bld, proto, ord, pk, ui, pd>>
    \/ HandleCreateFruitBox /\ UNCHANGED <<inventoryVars, snap, bld, proto, ord, pk, ui, pd>>
    \/ HandleCreateGiftWrapping /\ UNCHANGED <<inventoryVars, snap, bld, proto, ord, pk, ui, pd>>
    \/ HandleCreateGiftBasket /\ UNCHANGED <<inventoryVars, snap, bld, proto, ord, pk, ui, pd>>
    \/ HandleClearItems /\ UNCHANGED <<inventoryVars, snap, bld, proto, ord, pk, ui, pd>>

SpecFactory == Init /\ [][FactoryNext]_vars

\* ------------------------------------- the same fluent calls in two orders
FluentCalls ==
    {FluentCall("withFruits", l, 0, FALSE, <<>>) : l \in FruitLists}
    \cup {FluentCall("withVegetables", l, 0, FALSE, <<>>) : l \in VegetableLists}
    \cup {FluentCall("withPrice", <<>>, n, FALSE, <<>>) : n \in PackagePrices}
    \cup {FluentCall("asGift", <<>>, 0, f, <<>>) : f \in BOOLEAN}
    \cup {FluentCall("withDiscount", <<>>, n, FALSE, <<>>) : n \in Percents}
    \cup {FluentCall("withRecyclablePackaging", <<>>, 0, f, <<>>) : f \in BOOLEAN}
    \cup {FluentCall("withCustomMessage", <<>>, 0, FALSE, t) : t \in Messages}

\* x = ProducePackage.builder(name); y = ProducePackage.builder(name)
OrderBuilders(name) ==
    ord' = [OrderIdle EXCEPT !.made = TRUE, !.x = ProducePackageBuilder(name),
                             !.y = ProducePackageBuilder(name), !.op = "builder"]

\* the call c on x and on y
OrderSame(c) ==
    /\ ord.made
    /\ ord' = [ord EXCEPT !.x = apply(ord.x, c), !.y = apply(ord.y, c),
                          !.op = "call", !.outX = NoOutcome, !.outY = NoOutcome]

\* calls of two different methods: c then d on x, d then c on y
OrderSwapped(c, d) ==
    /\ ord.made
    /\ c.method # d.method
    /\ ord' = [ord EXCEPT !.x = apply(apply(ord.x, c), d),
                          !.y = apply(apply(ord.y, d), c),
                          !.swapped = TRUE, !.op = "calls",
                          !.outX = NoOutcome, !.outY = NoOutcome]

\* x.build() and y.build()
OrderBuild ==
    /\ ord.made
    /\ ord' = [ord EXCEPT !.op = "build", !.outX = Outcome(build(ord.x)),
                          !.outY = Outcome(build(ord.y))]

OrderNext ==
    \/ \E name \in PackageNames :
           OrderBuilders(name) /\ UNCHANGED <<inventoryVars, snap, bld, proto, fac, pk, ui, pd>>
    \/ \E c \in FluentCalls :
           OrderSame(c) /\ UNCHANGED <<inventoryVars, snap, bld, proto, fac, pk, ui, pd>>
    \/ \E c \in FluentCalls, d \in FluentCalls :
           OrderSwapped(c, d) /\ UNCHANGED <<inventoryVars, snap, bld, proto, fac, pk, ui, pd>>
    \/ OrderBuild /\ UNCHANGED <<inventoryVars, snap, bld, proto, fac, pk, ui, pd>>

SpecOrder == Init /\ [][OrderNext]_vars

\* ----------------------------------- a builder, its packages, their arrays
MaxHeld == 2

\* the arrays that the state st refers to
Reachable(st) ==
    ({st.b.fruits, st.b.vegetables, st.held}
        \cup {st.pkgs[i].p.fruits : i \in 1..Len(st.pkgs)}
        \cup {st.pkgs[i].p.vegetables : i \in 1..Len(st.pkgs)}) \ {NoRef}

\* a reference for a new array
NewRef(st) == CHOOSE r \in ArrayRefs \ Reachable(st) : \A q \in ArrayRefs \ Reachable(st) : r <= q

\* the state st with the arrays that nothing refers to any more collected
Collected(st) ==
    [st EXCEPT !.h = [r \in ArrayRefs |-> IF r \in Reachable(st) THEN st.h[r] ELSE <<>>]]

\* const builder = ProducePackage.builder("B"): the field initialisers make
\* the two empty arrays
PackageBuilder ==
    /\ ~pk.made
    /\ pk' = [PackageIdle EXCEPT !.made = TRUE,
                  !.b = [ProducePackageBuilder(<<"B">>) EXCEPT !.fruits = 1,
                                                              !.vegetables = 2]]

\* a fluent call that leaves the arrays as h and the builder as b
PackageCall(h, b) ==
    /\ pk.made
    /\ pk' = Collected([pk EXCEPT !.h = h, !.b = b])

PackageWithFruits ==
    LET r == withFruitsAt(pk.h, pk.b, NewRef(pk), <<"Apple">>) IN PackageCall(r.h, r.b)

PackageWithVegetables ==
    LET r == withVegetablesAt(pk.h, pk.b, NewRef(pk), <<"Carrot">>) IN
    PackageCall(r.h, r.b)

PackageWithPrice == PackageCall(pk.h, withPrice(pk.b, 1999).b)

\* builder.asGift().withCustomMessage("H")
PackageAsGift ==
    PackageCall(pk.h, withCustomMessage(asGift(pk.b, TRUE).b, <<"H">>).b)

\* builder.withDiscount(10).withRecyclablePackaging(false)
\*        .withDeliveryDate(date)
PackageWithOptions ==
    PackageCall(pk.h,
        withDeliveryDate(
            withRecyclablePackaging(withDiscount(pk.b, 10).b, FALSE).b, Now).b)

\* const p = builder.build(); the caller keeps up to MaxPackages packages
PackageBuild ==
    /\ pk.made
    /\ LET r == buildAt(pk.h, pk.b) IN
       pk' = [pk EXCEPT
                 !.pkgs = IF Len(r.pkg) = 1 /\ Len(pk.pkgs) < MaxPackages
                          THEN Append(pk.pkgs, [p |-> r.pkg[1],
                                                orig |-> Getters(pk.h, r.pkg[1])])
                          ELSE pk.pkgs]

\* const a = p.getFruits(), p the i-th package
PackageGetFruits(i) ==
    LET r == getFruits(pk.h, pk.pkgs[i].p, NewRef([pk EXCEPT !.held = NoRef])) IN
    pk' = Collected([pk EXCEPT !.h = r.h, !.held = r.ret])

\* const a = p.getVegetables(), p the i-th package
PackageGetVegetables(i) ==
    LET r == getVegetables(pk.h, pk.pkgs[i].p, NewRef([pk EXCEPT !.held = NoRef])) IN
    pk' = Collected([pk EXCEPT !.h = r.h, !.held = r.ret])

\* a.push("Kiwi")
PackagePush ==
    /\ pk.held # NoRef
    /\ Len(pk.h[pk.held]) < MaxHeld
    /\ pk' = [pk EXCEPT !.h[pk.held] = Append(pk.h[pk.held], "Kiwi")]

\* a.length = 0
PackageClear ==
    /\ pk.held # NoRef
    /\ pk' = [pk EXCEPT !.h[pk.held] = <<>>]

PackageNext ==
    \/ PackageBuilder /\ UNCHANGED <<inventoryVars, snap, bld, proto, fac, ord, ui, pd>>
    \/ PackageWithFruits /\ UNCHANGED <<inventoryVars, snap, bld, proto, fac, ord, ui, pd>>
    \/ PackageWithVegetables /\ UNCHANGED <<inventoryVars, snap, bld, proto, fac, ord, ui, pd>>
    \/ PackageWithPrice /\ UNCHANGED <<inventoryVars, snap, bld, proto, fac, ord, ui, pd>>
    \/ PackageAsGift /\ UNCHANGED <<inventoryVars, snap, bld, proto, fac, ord, ui, pd>>
    \/ PackageWithOptions /\ UNCHANGED <<inventoryVars, snap, bld, proto, fac, ord, ui, pd>>
    \/ PackageBuild /\ UNCHANGED <<inventoryVars, snap, bld, proto, fac, ord, ui, pd>>
    \/ \E i \in 1..Len(pk.pkgs) :
           PackageGetFruits(i) /\ UNCHANGED <<inventoryVars, snap, bld, proto, fac, ord, ui, pd>>
    \/ \E i \in 1..Len(pk.pkgs) :
           PackageGetVegetables(i)
           /\ UNCHANGED <<inventoryVars, snap, bld, proto, fac, ord, ui, pd>>
    \/ PackagePush /\ UNCHANGED <<inventoryVars, snap, bld, proto, fac, ord, ui, pd>>
    \/ PackageClear /\ UNCHANGED <<inventoryVars, snap, bld, proto, fac, ord, ui, pd>>

SpecPackage == Init /\ [][PackageNext]_vars

\* -------------------------------------------- the Singleton demo's handlers
DemoNames == {"", " ", "Apple"}
DemoQuantities == {0, 1}
DemoPrices == {0, 99}

\* a change of an input field
Input(u) == [u EXCEPT !.handler = "input", !.calls = 0, !.appended = <<>>]

\* onChange of the item name field: setItemName(e.target.value)
SetItemName(value) == ui' = Input([ui EXCEPT !.itemName = value])

\* setQuantity(parseInt(e.target.value) || 0)
SetQuantityField(value) == ui' = Input([ui EXCEPT !.quantity = value])

\* setPrice(parseFloat(e.target.value) || 0)
SetPrice(value) == ui' = Input([ui EXCEPT !.price = value])

\* setSellQuantity(parseInt(e.target.value) || 0)
SetSellQuantity(value) == ui' = Input([ui EXCEPT !.sellQuantity = value])

\* the stock values explored, in every Inventory object of the demo
DemoInRange(u) == \A i \in 1..Len(u.heap) : InRange(u.heap[i])

HandleAddItem == DemoInRange(handleAddItem(ui)) /\ ui' = handleAddItem(ui)

HandleSellItem == DemoInRange(handleSellItem(ui)) /\ ui' = handleSellItem(ui)

HandleCheckStock == ui' = handleCheckStock(ui)

HandleShowAllItems == ui' = handleShowAllItems(ui)

DemoNext ==
    \/ \E value \in DemoNames :
           SetItemName(value) /\ UNCHANGED <<inventoryVars, snap, bld, proto, fac, ord, pk, pd>>
    \/ \E value \in DemoQuantities :
           SetQuantityField(value)
           /\ UNCHANGED <<inventoryVars, snap, bld, proto, fac, ord, pk, pd>>
    \/ \E value \in DemoPrices :
           SetPrice(value) /\ UNCHANGED <<inventoryVars, snap, bld, proto, fac, ord, pk, pd>>
    \/ \E value \in DemoQuantities :
           SetSellQuantity(value)
           /\ UNCHANGED <<inventoryVars, snap, bld, proto, fac, ord, pk, pd>>
    \/ HandleAddItem /\ UNCHANGED <<inventoryVars, snap, bld, proto, fac, ord, pk, pd>>
    \/ HandleSellItem /\ UNCHANGED <<inventoryVars, snap, bld, proto, fac, ord, pk, pd>>
    \/ HandleCheckStock /\ UNCHANGED <<inventoryVars, snap, bld, proto, fac, ord, pk, pd>>
    \/ HandleShowAllItems /\ UNCHANGED <<inventoryVars, snap, bld, proto, fac, ord, pk, pd>>

SpecDemo == Init /\ [][DemoNext]_vars

\* -------------------------------------------- the Prototype demo's handlers
MaxDemoBundles == 3
MaxDemoItems == 4

\* what the user typed into the fields of the two forms
ItemNames == {<<>>, <<" ">>, <<"K", "i", "w", "i">>}
VariantNames == {<<>>, <<" ">>, <<"V">>}
Discounts == {0, 15}
TagInputs == {<<>>, <<" ">>, <<"s", ",", " ", "l">>}

\* the Button is there while bundles.length === 0
CreateTemplateBundle ==
    /\ Len(pd.bundles) = 0
    /\ pd' = createTemplateBundle(pd)

\* setSelectedBundleIndex(i), i = -1 or the index of a bundle
SetSelectedBundleIndex(i) ==
    pd' = [pd EXCEPT !.selected = i, !.handler = "select", !.early = FALSE]

AddItemToBundle(newItemName) ==
    /\ pd.selected # 0 =>
           Len(pd.h.arrs[pd.h.bundles[pd.bundles[pd.selected]].items]) < MaxDemoItems
    /\ pd' = addItemToBundle(pd, newItemName, 199, 1, FALSE)

DemoCreateVariant(newBundleName, newDiscount, newSeasonal, newTags) ==
    /\ Len(pd.bundles) < MaxDemoBundles
    /\ pd' = demoCreateVariant(pd, newBundleName, newDiscount, newSeasonal, newTags)

PrototypeDemoNext ==
    \/ CreateTemplateBundle /\ UNCHANGED <<inventoryVars, snap, bld, proto, fac, ord, pk, ui>>
    \/ \E i \in 0..Len(pd.bundles) :
           SetSelectedBundleIndex(i)
           /\ UNCHANGED <<inventoryVars, snap, bld, proto, fac, ord, pk, ui>>
    \/ \E newItemName \in ItemNames :
           AddItemToBundle(newItemName)
           /\ UNCHANGED <<inventoryVars, snap, bld, proto, fac, ord, pk, ui>>
    \/ \E newBundleName \in VariantNames, newDiscount \in Discounts,
          newSeasonal \in BOOLEAN, newTags \in TagInputs :
           DemoCreateVariant(newBundleName, newDiscount, newSeasonal, newTags)
           /\ UNCHANGED <<inventoryVars, snap, bld, proto, fac, ord, pk, ui>>

SpecPrototypeDemo == Init /\ [][PrototypeDemoNext]_vars

\* ------------------------------------------------------------------ claims
\* the callers that hold a handle
Holders == {h \in Handles : handles[h] # Null}

\* what caller h observes through its handle
Obj(h) == heap[handles[h]]

\* the same stock, price and entries are observed on a and on b
SameObservation(a, b) ==
    /\ \A n \in Names : getStockCount(a, n) = getStockCount(b, n)
    /\ \A n \in Names : getPrice(a, n) = getPrice(b, n)
    /\ getAllItems(a) = getAllItems(b)

\* C1: after every call, each caller that holds a handle observes the state
\* of the one reference mapping to which all calls so far were applied, and
\* the call returned what it returns on the reference mapping.
C1_SharedState ==
    /\ \A h \in Holders : SameObservation(Obj(h), ref)
    /\ last.op \in {"addItem", "sellItem", "getStockCount", "getPrice", "getAllItems"}
           => last.ret = last.refRet

\* a write through one handle is read through the other
C1_Witness ==
    /\ Holders = Handles
    /\ last.op = "getStockCount"
    /\ last.ret = RetNum(2)
    /\ \E n \in Names : getPrice(ref, n) = 150

\* the condition C2 puts on a step
C2_Step ==
    /\ Len(heap') > Len(heap) => instance = Null /\ last'.op = "getInstance"
    /\ Len(heap') <= 1
    /\ instance' = Null <=> heap' = <<>>
    /\ instance' # Null => instance' = 1
    /\ \A h \in Handles : handles'[h] \in {Null, instance'}
    /\ last'.op = "getInstance" => last'.ret = RetObj(instance')
    /\ instance # Null => instance' = instance
    /\ instance # Null /\ last'.op = "getInstance" => heap' = heap

\* C2: an Inventory is constructed only by a getInstance that finds no
\* instance; afterwards there is exactly one object, every getInstance
\* returns it, every handle refers to it, and the stored instance and the
\* object's stock and prices are left as they were by a later getInstance.
C2_SingleInstance == [][C2_Step]_vars

\* a second getInstance after stock was recorded
C2_Witness ==
    /\ last.op = "getInstance"
    /\ Holders = Handles
    /\ \E n \in Names : getStockCount(heap[instance], n) = 2

\* C3: the stock of every name is never negative, whatever integers were
\* passed to addItem and sellItem.
C3_NonNegativeStock ==
    \A h \in Holders : \A n \in Names : getStockCount(Obj(h), n) >= 0

\* the condition C4 puts on a step
C4_Step ==
    last'.op = "sellItem" =>
        \A h \in Holders :
            (last'.ret = RetBool(TRUE)) <=> (last'.q <= getStockCount(Obj(h), last'.name))

\* C4: sellItem(name, q) returns true exactly when q <= getStockCount(name)
\* as it was immediately before the call.
C4_SellIffEnough == [][C4_Step]_vars

\* a sale of exactly the stock at hand succeeded
C4_Witness ==
    /\ last.op = "sellItem"
    /\ last.ret = RetBool(TRUE)
    /\ last.q = 1
    /\ \A h \in Holders : getStockCount(Obj(h), last.name) = 0

\* the condition C5 puts on a step
C5_Step ==
    last'.op = "sellItem" /\ last'.ret = RetBool(FALSE) =>
        /\ handles' = handles
        /\ \A h \in Holders : SameObservation(heap'[handles'[h]], Obj(h))

\* C5: a sellItem that returns false leaves the stock and the price of every
\* name and the entries of getAllItems as they were.
C5_FailedSellNoChange == [][C5_Step]_vars

\* a failed sale on an inventory that holds stock
C5_Witness ==
    /\ last.op = "sellItem"
    /\ last.ret = RetBool(FALSE)
    /\ \E n \in Names : \A h \in Holders : getStockCount(Obj(h), n) = 2
    /\ \A h \in Holders : Len(getAllItems(Obj(h))) = 2

\* the condition C6 puts on a step
C6_Step ==
    last'.op = "sellItem" /\ last'.ret = RetBool(TRUE) =>
        \A h \in Holders :
            getStockCount(heap'[handles'[h]], last'.name)
                = getStockCount(Obj(h), last'.name) - last'.q

\* C6: a sellItem(name, q) that returns true leaves getStockCount(name) at
\* its value before the call minus q.
C6_SellDecrements == [][C6_Step]_vars

\* one unit sold out of two
C6_Witness ==
    /\ last.op = "sellItem"
    /\ last.ret = RetBool(TRUE)
    /\ last.q = 1
    /\ \A h \in Holders : getStockCount(Obj(h), last.name) = 1

\* the condition C7 puts on a step
C7_Step ==
    last'.op = "addItem" =>
        \A h \in Holders :
            /\ getStockCount(heap'[handles'[h]], last'.name)
                   = getStockCount(Obj(h), last'.name) + last'.q
            /\ last.op = "addItem" /\ last.fresh /\ last.name = last'.name
                   => getStockCount(heap'[handles'[h]], last'.name) = last.q + last'.q

\* C7: addItem(name, q, p) leaves getStockCount(name) at its value before the
\* call plus q (0 for a name with no entry); an addItem of a name that
\* directly follows the addItem that created the name's entry leaves the sum
\* of the two quantities.
C7_AddAccumulates == [][C7_Step]_vars

\* one unit added to a stock of one
C7_Witness ==
    /\ last.op = "addItem"
    /\ last.q = 1
    /\ \A h \in Holders : getStockCount(Obj(h), last.name) = 2

\* C8: getPrice(name) is the price passed to the most recent addItem of that
\* name.
C8_LastPriceWins ==
    \A h \in Holders : \A n \in Names :
        lastPrice[n] # <<>> => getPrice(Obj(h), n) = lastPrice[n][1]

\* a price of 150 was overwritten by a price of 0, after a failed sale
C8_Witness ==
    /\ last.op = "sellItem"
    /\ last.ret = RetBool(FALSE)
    /\ \E n \in Names :
           /\ lastPrice[n] = <<0>>
           /\ \A h \in Holders : MapGet(Obj(h).prices, n) = <<0>>
    /\ \E n \in Names : lastPrice[n] = <<150>>

\* C9: a name never passed to addItem has stock 0 and price 0.
C9_UnknownDefaults ==
    \A h \in Holders : \A n \in Names :
        lastPrice[n] = <<>> =>
            getStockCount(Obj(h), n) = 0 /\ getPrice(Obj(h), n) = 0

\* the condition C10 puts on a step
C10_Step ==
    last'.op = "sellItem" /\ last'.q = 0 =>
        /\ last'.ret = RetBool(TRUE)
        /\ \A h \in Holders :
               getStockCount(heap'[handles'[h]], last'.name)
                   = getStockCount(Obj(h), last'.name)

\* C10: sellItem(name, 0) returns true and leaves getStockCount(name) as it
\* was.
C10_SellZero == [][C10_Step]_vars

\* the condition C11 puts on a step
C11_Step ==
    /\ ~last'.threw
    /\ last'.op = "sellItem"
           /\ (\E h \in Holders : getStockCount(Obj(h), last'.name) < last'.q)
           => last'.ret = RetBool(FALSE)

\* C11: no call of getInstance, addItem, sellItem, getStockCount, getPrice or
\* getAllItems throws; a sellItem that finds too little stock returns false.
C11_NeverThrows == [][C11_Step]_vars

\* a sale that found too little stock returned
C11_Witness ==
    /\ last.op = "sellItem"
    /\ ~last.threw
    /\ last.ret = RetBool(FALSE)
    /\ last.q = 1
    /\ \A h \in Holders : getStockCount(Obj(h), last.name) = 0 - 1

\* the names listed in an array of entries, in order
EntryNames(es) == [i \in 1..Len(es) |-> es[i][1]]

\* C12: getAllItems lists no name twice, pairs every name it lists with that
\* name's getStockCount, and lists every name that was passed to addItem.
C12_AllItemsComplete ==
    \A h \in Holders :
        LET es == getAllItems(Obj(h)) IN
        /\ \A i, j \in 1..Len(es) : es[i][1] = es[j][1] => i = j
        /\ \A i \in 1..Len(es) : es[i][2] = getStockCount(Obj(h), es[i][1])
        /\ \A n \in Names : lastPrice[n] # <<>> => \E i \in 1..Len(es) : es[i][1] = n
        /\ last.op = "getAllItems" => last.ret = RetEntries(es)

\* getAllItems returned two names, one sold down to 0 and one in stock
C12_Witness ==
    /\ last.op = "getAllItems"
    /\ Len(last.ret.es) = 2
    /\ last.ret.es[1][2] = 0
    /\ last.ret.es[2][2] = 2
    /\ \A n \in Names : lastPrice[n] # <<>>

\* the condition C14 puts on a step
C14_Step ==
    \A h \in Holders :
        LET before == EntryNames(getAllItems(Obj(h)))
            after == EntryNames(getAllItems(heap'[handles'[h]])) IN
        \/ after = before
        \/ /\ after = Append(before, last'.name)
           /\ \A i \in 1..Len(before) : before[i] # last'.name

\* C14: getAllItems lists the names in the order in which each got its stock
\* entry: a call leaves the listed names and their positions as they were, or
\* appends the one name that had no entry.
C14_InsertionOrder == [][C14_Step]_vars

\* an addItem on the name listed first, with a second name listed after it
C14_Witness ==
    /\ last.op = "addItem"
    /\ ~last.fresh
    /\ \A h \in Holders :
           /\ Len(getAllItems(Obj(h))) = 2
           /\ getAllItems(Obj(h))[1][1] = last.name

\* the condition C13 puts on a step
C13_Step ==
    /\ snap'.has => snap'.held = snap'.expect
    /\ snap'.op = "change" => SameObservation(snap'.inv, snap.inv)
    /\ snap'.op = "getAllItems" /\ snap.has /\ ~snap.dirty => snap'.orig = snap.orig

NonBlank(s) == \E i \in 1..Len(s) : s[i] \notin WhiteSpace

\* the three conditions on what a package is built from
Buildable(b) ==
    /\ NonBlank(b.name)
    /\ Len(b.fruits) + Len(b.vegetables) >= 1
    /\ b.isGift => NonBlank(b.customMessage)

C15_Step ==
    /\ \A i \in 1..Len(bld'.pkg) :
           /\ Buildable(bld'.pkg[i])
           /\ bld'.op = "build"
    /\ bld'.op = "build" /\ ~Buildable(bld.b) =>
           bld'.err # NoError /\ bld'.pkg = <<>>

\* C15: every ProducePackage that build() returns has a name with a
\* character other than white space, at least one fruit or vegetable, and,
\* when it is a gift, a custom message with a character other than white
\* space; when one of the three fails, build() throws and returns no
\* package, whatever fluent calls came before.
C15_ValidPackage == [][C15_Step]_vars

\* a gift package built with vegetables only, from a name with leading
\* white space
C15_Witness ==
    /\ bld.op = "build"
    /\ Len(bld.pkg) = 1
    /\ bld.pkg[1].isGift
    /\ bld.pkg[1].fruits = <<>>
    /\ bld.pkg[1].name # trim(bld.pkg[1].name)

C16_Step ==
    /\ bld'.b.discountPercent >= 0
    /\ bld'.b.discountPercent <= 100
    /\ bld'.b.hasDiscount <=> bld'.b.discountPercent > 0
    /\ bld'.op = "withDiscount" /\ (bld'.n < 0 \/ bld'.n > 100) =>
           /\ bld'.err # NoError
           /\ bld'.b.hasDiscount = bld.b.hasDiscount
           /\ bld'.b.discountPercent = bld.b.discountPercent

\* C16: after any fluent calls on a builder discountPercent is between 0 and
\* 100 and hasDiscount is true exactly when discountPercent > 0; a
\* withDiscount(p) with p < 0 or p > 100 throws and leaves hasDiscount and
\* discountPercent as they were.
C16_DiscountRange == [][C16_Step]_vars

\* withDiscount(101) rejected on a builder that has a discount of 10
C16_Witness ==
    /\ bld.op = "withDiscount"
    /\ bld.n = 101
    /\ bld.err = "Discount must be between 0 and 100"
    /\ bld.b.hasDiscount
    /\ bld.b.discountPercent = 10

C17_Step ==
    /\ bld'.op = "withPrice" /\ bld'.n < 0 =>
           /\ bld'.err = "Price cannot be negative"
           /\ bld'.b = bld.b
    /\ \A i \in 1..Len(bld'.pkg) : bld'.pkg[i].price >= 0

\* C17: withPrice(p) with p < 0 throws "Price cannot be negative" and leaves
\* every field of the builder, the price set before included, as it was; the
\* price of every package built is therefore >= 0.
C17_NoNegativePrice == [][C17_Step]_vars

\* withPrice(-1) rejected on a builder whose price was set to 1999
C17_Witness ==
    /\ bld.op = "withPrice"
    /\ bld.n < 0
    /\ bld.err = "Price cannot be negative"
    /\ bld.b.price = 1999
    /\ bld.b.fruits # <<>>

\* what a bundle holds, references followed
View(h, b) ==
    LET this == h.bundles[b]
        refs == h.arrs[this.items]
    IN  [name |-> this.name,
         items |-> [k \in 1..Len(refs) |-> h.objs[refs[k]]],
         discountPercentage |-> this.discountPercentage,
         tags |-> h.strs[this.tags],
         seasonal |-> this.seasonal]

\* the bundles of the heap h that are not as they were in the heap g
Changed(g, h) == {c \in 1..Len(g.bundles) : View(h, c) # View(g, c)}

C18_Step ==
    /\ proto'.op = "clone" =>
           /\ proto'.res = Len(proto.h.bundles) + 1
           /\ View(proto'.h, proto'.res) = View(proto.h, proto'.src)
    /\ proto'.op = "clone" => Changed(proto.h, proto'.h) = {}
    /\ proto'.op = "change" => Cardinality(Changed(proto.h, proto'.h)) <= 1

\* C18: clone() returns a new bundle with the name, discountPercentage,
\* seasonal flag, tags and item fields of the original, and a later change to
\* the items, the fields of an item or the tags of one bundle leaves every
\* other bundle, the original and its clones included, as it was.
C18_DeepCopy == [][C18_Step]_vars

\* a clone of the template in which the quantity of the first item was
\* changed and an item added, the template with a tag added since
C18_Witness ==
    /\ proto.op = "change"
    /\ proto.how = <<"new", "clone">>
    /\ View(proto.h, 2).items[1].quantity = 6
    /\ Len(View(proto.h, 2).items) = 2
    /\ Len(View(proto.h, 2).tags) = 1
    /\ View(proto.h, 1).items = <<BundleItem("Carrot", 199, 5, FALSE)>>
    /\ View(proto.h, 1).tags = <<"popular", "limited">>

C19_Step ==
    proto'.op = "createVariant" =>
        LET v == View(proto'.h, proto'.res)
            s == View(proto.h, proto'.src)
            o == proto'.opts
        IN  /\ proto'.res = Len(proto.h.bundles) + 1
            /\ v.name = IF "name" \in o.set THEN o.name ELSE s.name
            /\ v.discountPercentage =
                   IF "discountPercentage" \in o.set
                   THEN o.discountPercentage ELSE s.discountPercentage
            /\ v.tags = IF "tags" \in o.set THEN o.tags ELSE s.tags
            /\ v.seasonal = IF "seasonal" \in o.set THEN o.seasonal ELSE s.seasonal
            /\ v.items = s.items
            /\ Changed(proto.h, proto'.h) = {}

\* C19: createVariant(options) returns a new bundle whose properties named in
\* options have the values given and whose other properties equal the
\* source's, and leaves the source as it was, also when the source is itself
\* a variant.
C19_Variant == [][C19_Step]_vars

\* a variant with new tags made from a variant with a new name
C19_Witness ==
    /\ proto.op = "createVariant"
    /\ proto.how[proto.src] = "variant"
    /\ proto.opts.set = {"tags", "seasonal"}
    /\ View(proto.h, proto.res).name = "Weekend Special"
    /\ View(proto.h, proto.res).tags = <<"seasonal">>
    /\ View(proto.h, proto.src).tags = <<"popular">>
    /\ View(proto.h, 1).name = "Weekday Mix"

\* a product of the organic family
InOrganicFamily(p) ==
    CASE p.product \in {"apple", "melon"} -> p.type = "organic"
      [] p.product = "fruitBox" -> p.material = "compostable fiber"
      [] p.product = "giftWrapping" ->
             p.material = "recycled paper with soy-based ink" /\ p.ribbon

\* a product of the regular family
InRegularFamily(p) ==
    CASE p.product \in {"apple", "melon"} -> p.type = "regular"
      [] p.product = "fruitBox" -> p.material = "cardboard"
      [] p.product = "giftWrapping" -> p.material = "standard paper" /\ ~p.ribbon

\* C20: every product a factory made belongs to that factory's family: the
\* organic factory makes organic fruits, the compostable fiber box and the
\* recycled-paper wrapping with a ribbon, the regular factory regular
\* fruits, the cardboard box and the standard paper wrapping without a
\* ribbon, and no product is of both families.
C20_FamilyConsistency ==
    \A i \in 1..Len(fac.createdItems) :
        LET item == fac.createdItems[i] IN
        \A k \in 1..Len(item.products) :
            /\ item.by = "organic" => InOrganicFamily(item.products[k])
            /\ item.by = "regular" => InRegularFamily(item.products[k])
            /\ ~(InOrganicFamily(item.products[k]) /\ InRegularFamily(item.products[k]))

\* a regular gift basket, an organic gift basket and an organic wrapping
C20_Witness ==
    /\ Len(fac.createdItems) = 3
    /\ fac.createdItems[1].by = "regular"
    /\ Len(fac.createdItems[1].products) = 4
    /\ fac.createdItems[2].by = "organic"
    /\ Len(fac.createdItems[2].products) = 4
    /\ fac.createdItems[3].products = <<OrganicGiftWrapping>>

\* the condition C24 puts on a step
C24_Step ==
    last'.op = "sellItem" =>
        \A h \in Holders :
            getStockCount(heap'[handles'[h]], last'.name)
                <= getStockCount(Obj(h), last'.name)

\* C24: sellItem never increases stock: getStockCount(name) after
\* sellItem(name, q) is less than or equal to getStockCount(name) before it.
C24_SellNeverIncreases == [][C24_Step]_vars

\* the set of the names that an array of entries lists
NameSet(es) == {es[i][1] : i \in 1..Len(es)}

\* the condition C25 puts on a step
C25_Step ==
    last'.op = "sellItem" =>
        \A h \in Holders :
            NameSet(getAllItems(heap'[handles'[h]])) = NameSet(getAllItems(Obj(h)))

\* C25: sellItem, whether it returns true or false, never changes the set of
\* names that getAllItems lists.
C25_SellKeepsNames == [][C25_Step]_vars

\* the condition C26 puts on a step
C26_Step ==
    last'.op = "sellItem" =>
        \A h \in Holders : \A n \in Names :
            /\ getPrice(heap'[handles'[h]], n) = getPrice(Obj(h), n)
            /\ n # last'.name =>
                   getStockCount(heap'[handles'[h]], n) = getStockCount(Obj(h), n)

\* C26: sellItem(n, q) leaves getPrice of every name, n included, and
\* getStockCount of every name other than n as they were, names that differ
\* only in case being different names.
C26_SellFrame == [][C26_Step]_vars

\* a sale of "Apple" succeeded while "apple" is in stock and both are priced
C26_Witness ==
    /\ last.op = "sellItem"
    /\ last.ret = RetBool(TRUE)
    /\ last.name = "Apple"
    /\ last.q = 1
    /\ \A h \in Holders :
           /\ getStockCount(Obj(h), "apple") = 1
           /\ getPrice(Obj(h), "Apple") = 150
           /\ getPrice(Obj(h), "apple") = 150

\* the condition C27 puts on a step
C27_Step ==
    last'.op = "addItem" =>
        \A h \in Holders : \A n \in Names :
            n # last'.name =>
                /\ getStockCount(heap'[handles'[h]], n) = getStockCount(Obj(h), n)
                /\ getPrice(heap'[handles'[h]], n) = getPrice(Obj(h), n)

\* C27: addItem(n, q, p) leaves getStockCount and getPrice of every name
\* other than n as they were, names that differ only in case being
\* different names.
C27_AddFrame == [][C27_Step]_vars

\* "Apple" added at price 0 while "apple" is in stock at price 150
C27_Witness ==
    /\ last.op = "addItem"
    /\ last.name = "Apple"
    /\ last.q = 1
    /\ lastPrice["Apple"] = <<0>>
    /\ \A h \in Holders :
           /\ getStockCount(Obj(h), "apple") = 1
           /\ getPrice(Obj(h), "apple") = 150
           /\ getPrice(Obj(h), "Apple") = 0

\* C23: stock conservation: after any sequence of add and sell calls, for
\* every name, getStockCount(name) equals the sum of the quantities of all
\* adds of that name minus the sum of the quantities of all its sells that
\* returned true.
C23_Conservation ==
    \A h \in Holders : \A n \in Names : getStockCount(Obj(h), n) = ledger[n]

\* a name that was added and sold out, and a sale of it that then failed
C23_Witness ==
    /\ last.op = "sellItem"
    /\ last.ret = RetBool(FALSE)
    /\ last.q = 1
    /\ lastPrice[last.name] # <<>>
    /\ ledger[last.name] = 0
    /\ \E n \in Names : ledger[n] = 2

Queries == {"getStockCount", "getPrice", "getAllItems"}

\* the condition C28 puts on a step
C28_Step ==
    last'.op \in Queries =>
        /\ heap' = heap
        /\ instance' = instance
        /\ handles' = handles

\* C28: getStockCount, getPrice and getAllItems, called for a known or an
\* unknown name, create no entry and leave the stock map, the price map and
\* the shared instance as they were, so what later calls return is not
\* changed by them.
C28_QueriesPure == [][C28_Step]_vars

\* getStockCount of a name without an entry returned 0, another name having
\* one, and the name still has no entry
C28_Witness ==
    /\ last.op = "getStockCount"
    /\ last.ret = RetNum(0)
    /\ \A h \in Holders :
           /\ ~MapHas(Obj(h).items, last.name)
           /\ ~MapHas(Obj(h).prices, last.name)
           /\ Len(getAllItems(Obj(h))) = 1

\* C29: what build() gives (the field values of the package, or the Error
\* thrown) is the same for two builders on which the same calls of
\* withFruits, withVegetables, withPrice, asGift, withDiscount,
\* withRecyclablePackaging and withCustomMessage were made, the calls of
\* different methods in different orders: it depends on the last value set
\* for each field only.
C29_OrderIndependent ==
    /\ ord.x = ord.y
    /\ ord.outX = ord.outY

\* a discounted gift package built after calls made in two orders
C29_Witness ==
    /\ ord.op = "build"
    /\ ord.swapped
    /\ Len(ord.outX.pkg) = 1
    /\ ord.outX.pkg[1].isGift
    /\ ord.outX.pkg[1].hasDiscount
    /\ ord.outX.pkg[1].price = 1999
    /\ ord.outY.pkg = ord.outX.pkg

\* C22: a ProducePackage is immutable once built: whatever with*/asGift
\* calls and build() calls are made on its builder afterwards, and whatever
\* is done to an array that getFruits() or getVegetables() returned, every
\* getter of the package returns what it returned when build() returned the
\* package.
C22_Immutable ==
    \A i \in 1..Len(pk.pkgs) : Getters(pk.h, pk.pkgs[i].p) = pk.pkgs[i].orig

\* a package built with one fruit; since then the builder got a new fruits
\* array, vegetables, a price and the gift flag, and an array that
\* getFruits() returned was changed
C22_Witness ==
    /\ Len(pk.pkgs) = 1
    /\ pk.pkgs[1].orig.getFruits = <<"Apple">>
    /\ pk.pkgs[1].orig.getVegetables = <<>>
    /\ pk.pkgs[1].orig.getPrice = 0
    /\ ~pk.pkgs[1].orig.getIsGift
    /\ pk.b.fruits # pk.pkgs[1].p.fruits
    /\ pk.b.vegetables # pk.pkgs[1].p.vegetables
    /\ pk.b.price = 1999
    /\ pk.b.isGift
    /\ pk.held # NoRef
    /\ pk.h[pk.held] = <<"Apple", "Kiwi">>

\* the handlers that read the item name field
NameHandlers == {"handleAddItem", "handleSellItem", "handleCheckStock"}

C21_Step ==
    /\ ui'.handler \in NameHandlers /\ ui.itemName = "" =>
           /\ ui'.calls = 0
           /\ ui'.appended = <<>>
           /\ ui'.heap = ui.heap
           /\ ui'.instance = ui.instance
    /\ \A i \in 1..Len(ui'.heap) :
           /\ ~MapHas(ui'.heap[i].items, "")
           /\ ~MapHas(ui'.heap[i].prices, "")

\* C21: through the Singleton demo no Inventory entry with an empty item
\* name is ever created: with the item name field empty, handleAddItem,
\* handleSellItem and handleCheckStock make no call on Inventory and append
\* no line to the log, whatever the user did before.
C21_NoEmptyName == [][C21_Step]_vars

\* handleSellItem returned at once on an empty item name, with "Apple" in
\* the Inventory and a sell quantity of 0
C21_Witness ==
    /\ ui.handler = "handleSellItem"
    /\ ui.itemName = ""
    /\ ui.calls = 0
    /\ ui.sellQuantity = 0
    /\ ui.instance # Null
    /\ getStockCount(ui.heap[ui.instance], "Apple") = 1

\* the i-th bundle of the collection as it is in the state d of the demo
Entry(d, i) == View(d.h, d.bundles[i])

C30_Step ==
    /\ pd'.handler = "addItemToBundle" /\ ~pd'.early =>
           /\ Len(pd'.bundles) = Len(pd.bundles)
           /\ \A i \in 1..Len(pd.bundles) :
                  i # pd.selected => Entry(pd', i) = Entry(pd, i)
           /\ Len(Entry(pd', pd.selected).items) = Len(Entry(pd, pd.selected).items) + 1
           /\ SubSeq(Entry(pd', pd.selected).items, 1, Len(Entry(pd, pd.selected).items))
                  = Entry(pd, pd.selected).items
    /\ pd'.handler = "createVariant" /\ ~pd'.early =>
           /\ Len(pd'.bundles) = Len(pd.bundles) + 1
           /\ \A i \in 1..Len(pd.bundles) : Entry(pd', i) = Entry(pd, i)

\* C30: in the Prototype demo, adding an item to the selected bundle changes
\* that bundle's entry of the collection only: every other bundle, the
\* variants made from it before and the bundle it was made from included,
\* keeps its items, tags and discount; and creating a variant appends one
\* bundle and changes none of those there.
C30_DemoIsolation == [][C30_Step]_vars

\* an item added to the template after a variant was made from it, and to
\* the variant of that variant: the variant between them has three items
C30_Witness ==
    /\ pd.handler = "addItemToBundle"
    /\ ~pd.early
    /\ Len(pd.bundles) = 3
    /\ Len(Entry(pd, 1).items) = 4
    /\ Len(Entry(pd, 2).items) = 3
    /\ Len(Entry(pd, 3).items) = 4
    /\ Len(Entry(pd, 3).tags) = 6
    /\ Entry(pd, 2).discountPercentage = 15

====
